---- MODULE Spec2Model ----
(***************************************************************************)
(* The month-by-month shift scheduling engine of shifty: the script        *)
(* pediweb.py and its web variant generate_schedule.py.  Both run the same *)
(* loop: extract one month's constraints, build the optimisation model for *)
(* a (phase, M) trial, solve it, and carry the overlap decisions and the   *)
(* rolling fairness totals to the next month.                              *)
(*                                                                         *)
(* Calendar: a date is its day ordinal.  Months have MonthLen days (the    *)
(* real calendar's 28..31 scaled down so that the solver's search space    *)
(* can be enumerated); a year has 12 months and a week has 7 days.         *)
(* The spreadsheet holds explicit dates only (weekday-name rows are the    *)
(* ingestion's business).  Half shifts (midpoints) are kept as integers by *)
(* counting every "free shift" quantity in halves (names ending in 2).     *)
(***************************************************************************)
EXTENDS Integers, Sequences, FiniteSets, TLC

\* ------------------------------------------------------------------ bounds
NumWorkers == 3
MonthLen == 4
NumMonths == 3
MaxDeviations == 2
MaxSolverFaults == 1
MaxTotal2 == 4
MaxSameDow == 5
MaxRange == 6
MaxService == 2
NumSwapUsers == 2
MaxRequests == 2
MaxCalls == 4

\* ------------------------------------------------------- program constants
PENALTY_PREFER_NOT_DAY == 10
PENALTY_MISS_PREFERRED_DAY == 8
PENALTY_EXCESS_WEEKLY_SHIFTS == 5
PENALTY_REPEATED_WEEKDAY == 30
PENALTY_REPEATED_PAIRING == 35
PENALTY_MONTHLY_BALANCE == 60
PENALTY_SHIFT_LIMIT_VIOLATION == 500
PENALTY_WEEKEND_LIMIT_VIOLATION == 400
BALANCE_ALPHA == 1
MonthsPerYear == 12
DaysPerWeek == 7
FirstWeekendDay == 5

Max(a, b) == IF a >= b THEN a ELSE b
Min(a, b) == IF a <= b THEN a ELSE b
Abs(a) == IF a >= 0 THEN a ELSE 0 - a

RECURSIVE SumOver(_, _)
SumOver(S, f) ==
  IF S = {} THEN 0
  ELSE LET e == CHOOSE e \in S : TRUE IN f[e] + SumOver(S \ {e}, f)

\* ---------------------------------------------------------------- calendar
\* datetime(year, month, dom).date() as a day ordinal
DateOf(year, month, dom) == (year * MonthsPerYear + (month - 1)) * MonthLen + dom

\* date.weekday(): Monday is 0, Saturday 5, Sunday 6
weekday(d) == (d + 6) % DaysPerWeek

IsWeekend(d) == weekday(d) >= FirstWeekendDay

\* the days of a month, start_date .. end_date
DaysOfMonth(year, month) == {DateOf(year, month, i) : i \in 1..MonthLen}

\* days[:n] of a month
FirstDays(year, month, n) == {DateOf(year, month, i) : i \in 1..Min(n, MonthLen)}

\* {day, day - 1, day + 1} for every leave day
LeaveBlock(S) == UNION {{d - 1, d, d + 1} : d \in S}

VARIABLES
  variant,                 \* "pediweb" | "generate_schedule"
  ped_sheets,              \* the number of worker sheets of the workbook
  CONF,                    \* S1, S2, M_START, M_MIN, USE_LEXICOGRAPHIC_FAIRNESS
  xls,                     \* the workbook: one sheet per worker and MandatoryShifts
  end_year, end_month,     \* last month of the run
  current_year, current_month,
  pc,                      \* "trial" | "finish" | "done" | "aborted"
  soft_phase, m_idx,       \* position in the two loops over phase and M_CANDIDATES
  used_M, last_x, last_M, last_status, last_mandatory_cur,
  last_desired_free2,      \* desired_free of the last model built, in halves
  last_prob,               \* the last model built: the objective values it can take
  prev_overlap_mandatory,
  cumulative_actual_free2, cumulative_target_free2,
  solver_faults,           \* how often the solver may yet fail to reach a verdict
  trials,                  \* the trials of the current month, in order
  accepted,                \* what the accepted trial of the current month solved
  outcome,                 \* per processed month: what the month ended with
  neutral,                 \* what the month ended with when solved on zero totals
  weekday_term,            \* one (worker, weekday) pair and its repeated-weekday term
  task,                    \* the background job: its arguments and what it returned
  swaps,                   \* tables shift and shift_swap_request of the swap workflow
  stored0,                 \* the rows of table shift before the run: <<pediatrician_id, date>>
  shifts,                  \* the rows of table shift
  commit_faults            \* how many commits of the database may still raise

inputs == <<variant, ped_sheets, CONF, xls, end_year, end_month, stored0>>
db == <<shifts, commit_faults>>
vars == <<variant, ped_sheets, CONF, xls, end_year, end_month, current_year, current_month, pc,
          solver_faults,
          soft_phase, m_idx, used_M, last_x, last_M, last_status, last_mandatory_cur,
          last_desired_free2, last_prob, prev_overlap_mandatory, cumulative_actual_free2, cumulative_target_free2,
          neutral, weekday_term, task, swaps, stored0, shifts, commit_faults,
          trials, accepted, outcome>>

\* ped_names = {i + 1: name}; pediatricians = list(ped_names.keys())
pediatricians == 1..ped_sheets

\* ------------------------------------------------------ constraint extractor
\* mir_status: the MIR cell read as the can-supervise flag
MirStatus(cell) ==
  IF variant = "pediweb" THEN cell = "Yes" ELSE cell \in {"Yes", "yes"}

\* process_month without the skip-over-mandatory resolution
process_month_Unresolved(year, month) ==
  LET days == DaysOfMonth(year, month)
  IN [days |-> days,
      mandatory_shifts |-> [p \in pediatricians |-> {d \in xls.mandatory[p] : d \in days}],
      cannot_do_days |-> [p \in pediatricians |->
          LeaveBlock(xls.vacation[p]) \cup xls.skip[p] \cup LeaveBlock(xls.congress[p])],
      prefer_not_days |-> xls.prefer_not,
      preferred_days |-> xls.prefer,
      shift_limits |-> xls.number,
      weekend_limits |-> xls.weekend,
      tipus_status |-> xls.type,
      mir_status |-> [p \in pediatricians |-> MirStatus(xls.mir[p])]]

process_month(year, month) ==
  LET days == DaysOfMonth(year, month)
      skip_days == xls.skip
      raw_mandatory == [p \in pediatricians |-> {d \in xls.mandatory[p] : d \in days}]
  IN [days |-> days,
      mandatory_shifts |-> [p \in pediatricians |-> raw_mandatory[p] \ skip_days[p]],
      cannot_do_days |-> [p \in pediatricians |->
          LeaveBlock(xls.vacation[p]) \cup skip_days[p] \cup LeaveBlock(xls.congress[p])],
      prefer_not_days |-> xls.prefer_not,
      preferred_days |-> xls.prefer,
      shift_limits |-> xls.number,
      weekend_limits |-> xls.weekend,
      tipus_status |-> xls.type,
      mir_status |-> [p \in pediatricians |-> MirStatus(xls.mir[p])]]

\* ---------------------------------------------------------- horizon builder
HasNext(month, M_overlap) == month < MonthsPerYear /\ M_overlap > 0

\* combine_month_with_overlap merging every next-month entry, inside the overlap
\* window or not
combine_month_with_overlap_Unfiltered(year, month, M_overlap) ==
  LET cur == process_month(year, month)
      has_nxt == HasNext(month, M_overlap)
      nxt == process_month(year, month + 1)
      overlap_days == IF has_nxt THEN FirstDays(year, month + 1, M_overlap) ELSE {}
      merged(c, n) == [p \in pediatricians |-> c[p] \cup n[p]]
  IN [month_days |-> cur.days,
      overlap_days |-> overlap_days,
      days_all |-> cur.days \cup overlap_days,
      mandatory_all |-> merged(cur.mandatory_shifts, nxt.mandatory_shifts),
      cannot_all |-> merged(cur.cannot_do_days, nxt.cannot_do_days),
      prefer_not_all |-> merged(cur.prefer_not_days, nxt.prefer_not_days),
      preferred_all |-> merged(cur.preferred_days, nxt.preferred_days),
      shift_limits_cur |-> cur.shift_limits,
      weekend_limits_cur |-> cur.weekend_limits,
      has_next_limits |-> has_nxt,
      shift_limits_next |-> nxt.shift_limits,
      weekend_limits_next |-> nxt.weekend_limits,
      tipus_status |-> cur.tipus_status,
      mir_status |-> cur.mir_status]

combine_month_with_overlap(year, month, M_overlap) ==
  LET cur == process_month(year, month)
      has_nxt == HasNext(month, M_overlap)
      nxt == process_month(year, month + 1)
      overlap_days == IF has_nxt THEN FirstDays(year, month + 1, M_overlap) ELSE {}
      merged(c, n) == [p \in pediatricians |->
          c[p] \cup (IF overlap_days # {} THEN {d \in n[p] : d \in overlap_days} ELSE {})]
  IN [month_days |-> cur.days,
      overlap_days |-> overlap_days,
      days_all |-> cur.days \cup overlap_days,
      mandatory_all |-> merged(cur.mandatory_shifts, nxt.mandatory_shifts),
      cannot_all |-> merged(cur.cannot_do_days, nxt.cannot_do_days),
      prefer_not_all |-> merged(cur.prefer_not_days, nxt.prefer_not_days),
      preferred_all |-> merged(cur.preferred_days, nxt.preferred_days),
      shift_limits_cur |-> cur.shift_limits,
      weekend_limits_cur |-> cur.weekend_limits,
      has_next_limits |-> has_nxt,
      shift_limits_next |-> nxt.shift_limits,
      weekend_limits_next |-> nxt.weekend_limits,
      tipus_status |-> cur.tipus_status,
      mir_status |-> cur.mir_status]

\* ------------------------------------------------------------ model builder
\* The decision variables x[p, d] of one trial are kept as x[p], the set of
\* days d of days_all with x[p, d] = 1.

\* mandatory days of the current month, previous overlap included
mandatory_cur(data) ==
  [p \in pediatricians |->
     Cardinality({d \in data.mandatory_all[p] : d \in data.month_days}
                 \cup {d \in prev_overlap_mandatory[p] : d \in data.month_days})]

\* desired_free without the rolling imbalance: the midpoint, clamped
desired_free2_Midpoint(data) ==
  [p \in pediatricians |->
     LET mn == data.shift_limits_cur[p].min
         mx == data.shift_limits_cur[p].max
         mand == mandatory_cur(data)[p]
     IN Max(Max(0, 2 * (mn - mand)),
            Min(Max(0, 2 * (mx - mand)), Max(0, (mn + mx) - 2 * mand)))]

\* rolling desired FREE shifts, in halves
desired_free2(data) ==
  [p \in pediatricians |->
     LET mn == data.shift_limits_cur[p].min
         mx == data.shift_limits_cur[p].max
         mand == mandatory_cur(data)[p]
         min_free2 == Max(0, 2 * (mn - mand))
         max_free2 == Max(0, 2 * (mx - mand))
         midpoint_free2 == Max(0, (mn + mx) - 2 * mand)
         imbalance_free2 == cumulative_target_free2[p] - cumulative_actual_free2[p]
         d_free2 == midpoint_free2 + BALANCE_ALPHA * imbalance_free2
     IN Max(min_free2, Min(max_free2, d_free2))]

month_total(x, data, p) == Cardinality(x[p] \cap data.month_days)
wknd_total(x, data, p) == Cardinality({d \in x[p] \cap data.month_days : IsWeekend(d)})

\* slack variables of the soft phase at their least feasible value
\* under_min without the lower bound 0 of the slack variable
under_min_Unbounded(x, data, p) == data.shift_limits_cur[p].min - month_total(x, data, p)
under_min(x, data, p) == Max(0, data.shift_limits_cur[p].min - month_total(x, data, p))
over_max(x, data, p) == Max(0, month_total(x, data, p) - data.shift_limits_cur[p].max)
under_min_wknd(x, data, p) == Max(0, data.weekend_limits_cur[p].min - wknd_total(x, data, p))
over_max_wknd(x, data, p) == Max(0, wknd_total(x, data, p) - data.weekend_limits_cur[p].max)

\* --- soft penalty terms (penalty_terms_base)
PreferNotTerm(x, data) ==
  CONF.PENALTY_PREFER_NOT_DAY *
    SumOver(pediatricians, [p \in pediatricians |->
      Cardinality({d \in data.days_all : d \in data.prefer_not_all[p] /\ d \in x[p]})])

\* missed_preferred[p, d] >= 1 - x[p, d], binary, minimised
MissPreferredTerm(x, data) ==
  PENALTY_MISS_PREFERRED_DAY *
    SumOver(pediatricians, [p \in pediatricians |->
      Cardinality({d \in data.days_all : d \in data.preferred_all[p] /\ d \notin x[p]})])

MonthStart(data) == CHOOSE d \in data.month_days : \A e \in data.month_days : d <= e
num_weeks(data) == (Cardinality(data.month_days) + 6) \div DaysPerWeek
week_days(data, week) ==
  {d \in data.month_days : (d - MonthStart(data)) \div DaysPerWeek = week}

\* week_violations[p, week] >= (sum - 2) / len(week_days), binary, minimised
ExcessWeeklyTerm(x, data) ==
  PENALTY_EXCESS_WEEKLY_SHIFTS *
    SumOver(pediatricians, [p \in pediatricians |->
      Cardinality({w \in 0..(num_weeks(data) - 1) :
                     Cardinality(x[p] \cap week_days(data, w)) - 2 > 0})])

same_dow_days(data, dow) == {d \in data.month_days : weekday(d) = dow}

\* sum over i = 1 .. n-1 of (x on the first i+1 days of that weekday) - 1
RepeatedWeekdayOf(s, days) ==
  IF Cardinality(days) < 2 THEN 0
  ELSE SumOver(days \ {CHOOSE d \in days : \A e \in days : d <= e},
               [last \in days |-> Cardinality({d \in s : d \in days /\ d <= last}) - 1])

RepeatedWeekdayTerm(x, data) ==
  PENALTY_REPEATED_WEEKDAY *
    SumOver(pediatricians, [p \in pediatricians |->
      SumOver(0..(DaysPerWeek - 1), [dow \in 0..(DaysPerWeek - 1) |->
        RepeatedWeekdayOf(x[p], same_dow_days(data, dow))])])

Pairs == {pr \in pediatricians \X pediatricians : pr[1] < pr[2]}

\* working_together is the AND of the two x; pair_violations >= (sum - 1) / len(days_all)
RepeatedPairingTerm(x, data) ==
  PENALTY_REPEATED_PAIRING *
    Cardinality({pr \in Pairs : Cardinality(x[pr[1]] \cap x[pr[2]]) - 1 > 0})

SoftLimitTerm(x, data, soft) ==
  IF soft
  THEN SumOver(pediatricians, [p \in pediatricians |->
         PENALTY_SHIFT_LIMIT_VIOLATION * (under_min(x, data, p) + over_max(x, data, p))
         + PENALTY_WEEKEND_LIMIT_VIOLATION
             * (under_min_wknd(x, data, p) + over_max_wknd(x, data, p))])
  ELSE 0

\* base_expr with the fairness term appended to penalty_terms_base
base_expr_WithFairness(x, data, soft) ==
  PreferNotTerm(x, data) + MissPreferredTerm(x, data) + ExcessWeeklyTerm(x, data)
  + RepeatedWeekdayTerm(x, data) + RepeatedPairingTerm(x, data)
  + SoftLimitTerm(x, data, soft)
  + PENALTY_MONTHLY_BALANCE *
      SumOver(pediatricians, [p \in pediatricians |->
        Abs(2 * (month_total(x, data, p) - mandatory_cur(data)[p]) - desired_free2(data)[p])])

\* value of base_expr at x, auxiliary variables at their least values
base_expr(x, data, soft) ==
  PreferNotTerm(x, data) + MissPreferredTerm(x, data) + ExcessWeeklyTerm(x, data)
  + RepeatedWeekdayTerm(x, data) + RepeatedPairingTerm(x, data)
  + SoftLimitTerm(x, data, soft)

\* twice the value of fair_expr at x: bal_dev_pos + bal_dev_neg = |month_free - desired|
fair_expr2(x, data, mand, desired2) ==
  PENALTY_MONTHLY_BALANCE *
    SumOver(pediatricians, [p \in pediatricians |->
      Abs(2 * (month_total(x, data, p) - mand[p]) - desired2[p])])

\* --- hard constraints, per worker p with row s = x[p]
MandatoryShift(p, s, data) == \A d \in data.mandatory_all[p] : d \in s

\* PrevOverlapMandatoryDates without the test that the date is in the month
PrevOverlapMandatoryDates_Unfiltered(p, data) == prev_overlap_mandatory[p]

\* the dates d of the constraints PrevOverlapMandatory_p_d of a model
PrevOverlapMandatoryDates(p, data) ==
  {d \in prev_overlap_mandatory[p] : d \in data.month_days}

PrevOverlapMandatory(p, s, data) ==
  \A d \in PrevOverlapMandatoryDates(p, data) : d \in s

\* Unavailability over the current month only, the overlap window forgotten
Unavailability_MonthOnly(p, s, data) ==
  \A d \in data.month_days : d \in data.cannot_all[p] => d \notin s

Unavailability(p, s, data) ==
  \A d \in data.days_all : d \in data.cannot_all[p] => d \notin s

WeekendLimit(p, s, data, soft) ==
  LET wk == Cardinality({d \in s \cap data.month_days : IsWeekend(d)})
  IN soft \/ (wk >= data.weekend_limits_cur[p].min /\ wk <= data.weekend_limits_cur[p].max)

\* ShiftLimit with the maximum forgotten
ShiftLimit_MinOnly(p, s, data, soft) ==
  soft \/ Cardinality(s \cap data.month_days) >= data.shift_limits_cur[p].min

ShiftLimit(p, s, data, soft) ==
  LET tot == Cardinality(s \cap data.month_days)
  IN soft \/ (tot >= data.shift_limits_cur[p].min /\ tot <= data.shift_limits_cur[p].max)

OverlapCap(p, s, data) ==
  (data.overlap_days # {} /\ data.has_next_limits) =>
     /\ Cardinality(s \cap data.overlap_days) <= data.shift_limits_next[p].max
     /\ LET overlap_weekends == {d \in data.overlap_days : IsWeekend(d)}
        IN overlap_weekends # {} =>
             Cardinality(s \cap overlap_weekends) <= data.weekend_limits_next[p].max

\* ShiftSeparation with the offsets 1 .. M_try - 1
ShiftSeparation_ShortRange(p, s, data, M_try) ==
  \A d \in s : \A k \in 1..(M_try - 1) :
     (d + k) \in data.days_all => (d + k) \notin s

ShiftSeparation(p, s, data, M_try) ==
  \A d \in s : \A k \in 1..M_try :
     (d + k) \in data.days_all => (d + k) \notin s

RowOK(p, s, data, soft, M_try) ==
  /\ ShiftSeparation(p, s, data, M_try)
  /\ MandatoryShift(p, s, data)
  /\ PrevOverlapMandatory(p, s, data)
  /\ Unavailability(p, s, data)
  /\ ShiftLimit(p, s, data, soft)
  /\ WeekendLimit(p, s, data, soft)
  /\ OverlapCap(p, s, data)

\* --- hard constraints, per day d with S the workers assigned that day
On(x, d) == {p \in DOMAIN x : d \in x[p]}

\* MinStaffing with the lower bound off by one
MinStaffing_OffByOne(S) == Cardinality(S) >= CONF.S1 - 1
MinStaffing(S) == Cardinality(S) >= CONF.S1
MaxStaffing(S) == Cardinality(S) <= CONF.S2

residents(data) == {p \in pediatricians : data.tipus_status[p] = "Resident"}
non_mir_supervisors(data) == {p \in pediatricians : ~data.mir_status[p]}

\* the model without the constraints NoResidentWithNonMIR
NoResidentWithNonMIR_Dropped(S, data) == TRUE

\* the pairs of two different workers only
NoResidentWithNonMIR_Others(S, data) ==
  \A r \in residents(data) : \A s \in non_mir_supervisors(data) \ {r} : ~(r \in S /\ s \in S)

NoResidentWithNonMIR(S, data) ==
  \A r \in residents(data) : \A s \in non_mir_supervisors(data) : ~(r \in S /\ s \in S)

NoResidentPairing(S, data) == Cardinality(S \cap residents(data)) <= 1

\* the constraints of a day that more workers can only break
DayCap(S, data) ==
  /\ MaxStaffing(S)
  /\ NoResidentWithNonMIR(S, data)
  /\ NoResidentPairing(S, data)

DayOK(S, data) == MinStaffing(S) /\ DayCap(S, data)

\* every constraint of the model of one trial
Satisfies(x, data, soft, M_try) ==
  /\ \A p \in pediatricians : RowOK(p, x[p], data, soft, M_try)
  /\ \A d \in data.days_all : DayOK(On(x, d), data)

\* The feasible region in x, enumerated worker by worker: px holds the rows of
\* the workers before p; p may not take a day that breaks a cap and must take
\* a day that the workers after p could not staff.
RECURSIVE RowsUpTo(_, _, _)
RowsUpTo(k, rows, data) ==
  IF k = 0 THEN {<<>>}
  ELSE {Append(pxs[1], pxs[2]) :
          pxs \in {pxs \in RowsUpTo(k - 1, rows, data) \X rows[k] :
             LET px == pxs[1]
                 s == pxs[2]
             IN \A d \in data.days_all :
                  IF d \in s THEN DayCap(On(px, d) \cup {k}, data)
                  ELSE MinStaffing(On(px, d) \cup ((k + 1)..ped_sheets))}}

Feasible(data, soft, M_try) ==
  LET rows == [p \in pediatricians |->
                 {s \in SUBSET data.days_all : RowOK(p, s, data, soft, M_try)}]
  IN {x \in {[p \in pediatricians |-> px[p]] : px \in RowsUpTo(ped_sheets, rows, data)} :
        \A d \in data.days_all : DayOK(On(x, d), data)}

\* ------------------------------------------------------------------ solver
\* prob.solve() on a model whose feasible region is F: the status it reports
LpStatus(F) == IF F = {} THEN "Infeasible" ELSE "Optimal"

\* the least value of a finite non-empty set of numbers
Least(C) == CHOOSE m \in C : \A c \in C : m <= c

\* The continuous slack variables of the soft phase are returned as their least
\* feasible value plus an excess, counted in units of 1e-9; LEXI_TOL (1e-6) is
\* 1000 of these units.
LEXI_TOL == 1000
MaxExcess == 1
SlackKinds == {"under_min", "over_max", "under_min_wknd", "over_max_wknd"}
SlackWeight(kind) ==
  IF kind \in {"under_min", "over_max"}
  THEN PENALTY_SHIFT_LIMIT_VIOLATION ELSE PENALTY_WEEKEND_LIMIT_VIOLATION
NoExcess == [p \in pediatricians |-> [k \in SlackKinds |-> 0]]
Excesses(soft) ==
  IF soft THEN [pediatricians -> [SlackKinds -> 0..MaxExcess]] ELSE {NoExcess}
WeightedExcess(e) ==
  SumOver(pediatricians, [p \in pediatricians |->
    SumOver(SlackKinds, [k \in SlackKinds |-> SlackWeight(k) * e[p][k]])])

\* the re-solve without the constraint FixBaseObjective
FixBaseObjective_Dropped(base, e, base_val) == TRUE

\* base_expr <= base_val + LEXI_TOL, for a solution of base value base with slack
\* excess e (base values are whole numbers, the tolerance is below one)
FixBaseObjective(base, e, base_val) ==
  base - base_val <= 0 /\ (base - base_val < 0 \/ WeightedExcess(e) <= LEXI_TOL)

\* the values of the slack variables at x: least feasible value and excess
slack_values(x, data, soft, e) ==
  [p \in pediatricians |->
     [k \in SlackKinds |->
        [least |-> IF ~soft THEN 0
                   ELSE CASE k = "under_min" -> under_min(x, data, p)
                          [] k = "over_max" -> over_max(x, data, p)
                          [] k = "under_min_wknd" -> under_min_wknd(x, data, p)
                          [] k = "over_max_wknd" -> over_max_wknd(x, data, p),
         excess |-> e[p][k]]]]

\* base_expr and (twice) fair_expr over the feasible region F of a model
Costs(F, data, soft) ==
  LET mand == mandatory_cur(data)
      desired2 == desired_free2(data)
  IN {[x |-> x, base |-> base_expr(x, data, soft),
       fair2 |-> fair_expr2(x, data, mand, desired2)] : x \in F}

\* a solver that stops at the first feasible point instead of an optimum
Solutions_AnyFeasible(costs, data, soft) ==
  {[x |-> c.x, slack |-> slack_values(c.x, data, soft, NoExcess),
    base_val |-> c.base, status |-> "Optimal"] : c \in costs}

\* Solve pass 1 on a model of the given costs and, in lexicographic mode, the
\* re-solve on fair_expr.  The set of outcomes [x, slack, base_val, status] the
\* solver may leave in the variables.
Solutions(costs, data, soft) ==
  IF CONF.USE_LEXICOGRAPHIC_FAIRNESS
  THEN LET base_val == Least({c.base : c \in costs})
           F2 == {c \in costs : FixBaseObjective(c.base, NoExcess, base_val)}
           best2 == Least({c.fair2 : c \in F2})
           second == {c \in F2 : c.fair2 = best2}
           slack == {e \in Excesses(soft) : WeightedExcess(e) <= LEXI_TOL}
       IN {[x |-> ce[1].x, slack |-> slack_values(ce[1].x, data, soft, ce[2]),
            base_val |-> base_val, status |-> LpStatus(F2)] :
             ce \in {ce \in second \X slack :
                       FixBaseObjective(ce[1].base, ce[2], base_val)}}
  ELSE LET best == Least({2 * c.base + c.fair2 : c \in costs})
       IN {[x |-> c.x, slack |-> slack_values(c.x, data, soft, NoExcess),
            base_val |-> c.base, status |-> "Optimal"] :
             c \in {c \in costs : 2 * c.base + c.fair2 = best}}

\* what a solve that ends without a verdict may leave in the variables x
Garbage(data) == {[p \in pediatricians |-> {}], [p \in pediatricians |-> data.days_all]}

\* One run of the solver calls of a trial.  raised: a call raised an exception;
\* status: LpStatus after solve pass 1; final: LpStatus after the last call; fault:
\* whether a call failed to reach a verdict.  A solver that works returns the
\* Solutions; one that fails raises, or ends pass 1 or the re-solve Not Solved.
SolverRuns(costs, data, soft) ==
  LET none == [p \in pediatricians |-> {}]
      run(raised, status, final, x, slack, base_val, fault) ==
        [raised |-> raised, status |-> status, final |-> final, x |-> x,
         slack |-> slack, base_val |-> base_val, fault |-> fault]
      blank(raised, status, fault) ==
        run(raised, status, status, none, slack_values(none, data, FALSE, NoExcess), 0, fault)
      works ==
        IF costs = {} THEN {blank(FALSE, LpStatus({}), 0)}
        ELSE {run(FALSE, "Optimal", sol.status, sol.x, sol.slack, sol.base_val, 0) :
                sol \in Solutions(costs, data, soft)}
      fails ==
        {blank(TRUE, "Not Solved", 1), blank(FALSE, "Not Solved", 1)}
        \cup (IF costs # {} /\ CONF.USE_LEXICOGRAPHIC_FAIRNESS
              THEN {run(FALSE, "Optimal", "Not Solved", g,
                        slack_values(g, data, soft, NoExcess),
                        Least({c.base : c \in costs}), 1) : g \in Garbage(data)}
              ELSE {})
  IN works \cup (IF solver_faults > 0 THEN fails ELSE {})

\* ------------------------------------------------------------------ driver
None == 0 - 1
NoX == [p \in pediatricians |-> {}]
NoAccept == [ok |-> FALSE]
NoProb == [status |-> "None", values |-> {}]
NoDiagnostic == [status |-> "None"]
NoDesired == [p \in pediatricians |-> None]
\* the variables of the other specifications, at rest
side == <<weekday_term, task, swaps>>

NoTerm == [days |-> {}, assigned |-> {}, value |-> 0, done |-> FALSE]

NoTask == [args |-> <<>>, status |-> "none", entered |-> FALSE, message |-> "none"]

NoSwaps == [shift |-> <<>>, reqs |-> <<>>]

SideIdle ==
  /\ weekday_term = NoTerm
  /\ task = NoTask
  /\ swaps = NoSwaps

NoNeutral == [recorded |-> FALSE, ok |-> FALSE, soft |-> FALSE, M |-> None,
              base_val |-> None, fair2 |-> None]

\* M_CANDIDATES ascending
M_CANDIDATES_Ascending ==
  [i \in 1..Max(0, CONF.M_START - CONF.M_MIN + 1) |-> CONF.M_MIN + i - 1]

M_CANDIDATES ==
  [i \in 1..Max(0, CONF.M_START - CONF.M_MIN + 1) |-> CONF.M_START - i + 1]

\* the month after (year, month)
NextMonth(year, month) ==
  IF month + 1 > MonthsPerYear THEN <<year + 1, 1>> ELSE <<year, month + 1>>

\* the loop condition with the end month excluded
InRange_Exclusive(year, month) ==
  (year < end_year) \/ (year = end_year /\ month < end_month)

InRange(year, month) ==
  (year < end_year) \/ (year = end_year /\ month <= end_month)

\* one (phase, M) trial: build the model, solve, re-solve, accept or fall back
Trial ==
  /\ pc = "trial"
  /\ m_idx <= Len(M_CANDIDATES)
  /\ \E data \in {combine_month_with_overlap(current_year, current_month,
                                              M_CANDIDATES[m_idx])} :
     \E F \in {Feasible(data, soft_phase, M_CANDIDATES[m_idx])} :
     \E costs \in {Costs(F, data, soft_phase)} :
     \E run \in SolverRuns(costs, data, soft_phase) :
       LET M_try == M_CANDIDATES[m_idx]
       IN /\ last_mandatory_cur' = mandatory_cur(data)
          /\ last_desired_free2' = desired_free2(data)
          /\ last_prob' = [status |-> run.status,
                           values |-> {[base |-> c.base, fair2 |-> c.fair2] : c \in costs}]
          /\ last_M' = M_try
          /\ solver_faults' = solver_faults - run.fault
          /\ trials' = Append(trials,
               [soft |-> soft_phase, M |-> M_try, status |-> run.status,
                raised |-> run.raised,
                carried |-> [p \in pediatricians |-> PrevOverlapMandatoryDates(p, data)]])
          /\ IF run.raised
             THEN /\ pc' = "aborted"
                  /\ last_status' = run.status
                  /\ UNCHANGED <<used_M, last_x, accepted, soft_phase, m_idx>>
             ELSE IF run.status = "Optimal"
             THEN /\ used_M' = M_try
                  /\ last_x' = run.x
                  /\ last_status' = run.final
                  /\ accepted' = [ok |-> TRUE, soft |-> soft_phase, M |-> M_try,
                                  x |-> run.x, slack |-> run.slack,
                                  base_val |-> run.base_val, status |-> run.final]
                  /\ pc' = "finish"
                  /\ UNCHANGED <<soft_phase, m_idx>>
             ELSE /\ last_status' = run.status
                  /\ UNCHANGED <<used_M, last_x, accepted>>
                  /\ IF m_idx < Len(M_CANDIDATES)
                     THEN m_idx' = m_idx + 1 /\ UNCHANGED <<soft_phase, pc>>
                     ELSE IF ~soft_phase
                          THEN soft_phase' = TRUE /\ m_idx' = 1 /\ UNCHANGED pc
                          ELSE pc' = "finish" /\ UNCHANGED <<soft_phase, m_idx>>
  /\ UNCHANGED <<inputs, side, db, neutral, current_year, current_month, prev_overlap_mandatory,
                 cumulative_actual_free2, cumulative_target_free2, outcome>>

\* the loop head of the next month, or the end of the run
Advance ==
  LET nm == NextMonth(current_year, current_month)
  IN /\ current_year' = nm[1]
     /\ current_month' = nm[2]
     /\ pc' = IF InRange(nm[1], nm[2]) THEN "trial" ELSE "done"
     /\ soft_phase' = FALSE
     /\ m_idx' = 1
     /\ used_M' = None
     /\ last_x' = NoX
     /\ last_M' = None
     /\ last_status' = "None"
     /\ last_mandatory_cur' = [p \in pediatricians |-> 0]
     /\ last_desired_free2' = NoDesired
     /\ last_prob' = NoProb
     /\ trials' = <<>>
     /\ accepted' = NoAccept

\* new_prev_overlap read over the month's days instead of the overlap window
new_prev_overlap_MonthDays(x, data) ==
  [p \in pediatricians |->
     IF data.overlap_days # {} THEN {d \in data.month_days : d \in x[p]} ELSE {}]

\* the overlap-window decisions of an accepted solution, carried to the next month
new_prev_overlap(x, data) ==
  [p \in pediatricians |->
     IF data.overlap_days # {} THEN {d \in data.overlap_days : d \in x[p]} ELSE {}]

\* schedule_month read over the whole horizon, overlap window included
schedule_month_Horizon(x, data) ==
  [p \in pediatricians |-> {d \in data.days_all : d \in x[p]}]

\* the assignment of the month: the days of month_days with x[p, d] = 1
schedule_month(x, data) ==
  [p \in pediatricians |-> {d \in data.month_days : d \in x[p]}]

\* assigned_free, in halves
assigned_free2(assigned_total, mandatory_p) == Max(0, 2 * (assigned_total - mandatory_p))

\* target_free without the floor at 0
target_free2_NoFloor(mn, mx, mandatory_p) == (mn + mx) - 2 * mandatory_p

\* target_free, in halves: max(0, midpoint_total - mandatory_p)
target_free2(mn, mx, mandatory_p) == Max(0, (mn + mx) - 2 * mandatory_p)

\* Shift.query.filter(Shift.date >= start_clean, Shift.date <= end_clean).delete()
\* kept as they are: the rows of every date
clean_range_Nothing(stored, start_year, start_month) == stored

clean_range(stored, start_year, start_month) ==
  LET start_clean == DateOf(start_year, start_month, 1)
      end_clean == IF end_month = MonthsPerYear
                   THEN DateOf(end_year, MonthsPerYear, MonthLen)
                   ELSE DateOf(end_year, end_month + 1, 1) - 1
  IN {s \in stored : ~(s[2] >= start_clean /\ s[2] <= end_clean)}

\* shifts_to_add: a row for every x[p, d] = 1 of the month
shifts_to_add(schedule) == UNION {{<<p, d>> : d \in schedule[p]} : p \in pediatricians}

\* db.session.commit() of the month's rows: it raises when a row breaks the
\* unique constraint on (pediatrician_id, date), and may raise for a database
\* that fails
CommitRaises(rows) ==
  {rows \cap shifts # {}} \cup (IF commit_faults > 0 /\ rows \cap shifts = {} THEN {TRUE} ELSE {})

\* extraction of an accepted month: the save of generate_and_save, then schedule,
\* rolling trackers, overlap carry; a save that raises ends the run
Extract ==
  /\ pc = "finish"
  /\ used_M # None
  /\ LET data == combine_month_with_overlap(current_year, current_month, used_M)
         x == last_x
         schedule == schedule_month(x, data)
         carry == new_prev_overlap(x, data)
         rows == shifts_to_add(schedule)
     IN \E raises \in (IF variant = "generate_schedule" THEN CommitRaises(rows) ELSE {FALSE}) :
        IF raises
        THEN /\ pc' = "aborted"
             /\ commit_faults' = IF rows \cap shifts = {} THEN commit_faults - 1 ELSE commit_faults
             /\ UNCHANGED <<shifts, current_year, current_month, soft_phase, m_idx, used_M,
                            last_x, last_M, last_status, last_mandatory_cur,
                            last_desired_free2, last_prob, trials, accepted,
                            cumulative_actual_free2, cumulative_target_free2,
                            prev_overlap_mandatory, outcome>>
        ELSE
        /\ shifts' = IF variant = "generate_schedule" THEN shifts \cup rows ELSE shifts
        /\ commit_faults' = commit_faults
        /\ Advance
        /\ cumulative_actual_free2' = [p \in pediatricians |->
             cumulative_actual_free2[p]
             + assigned_free2(Cardinality(schedule[p]), last_mandatory_cur[p])]
        /\ cumulative_target_free2' = [p \in pediatricians |->
             cumulative_target_free2[p]
             + target_free2(data.shift_limits_cur[p].min, data.shift_limits_cur[p].max,
                            last_mandatory_cur[p])]
        /\ prev_overlap_mandatory' = carry
        /\ outcome' = Append(outcome,
             [year |-> current_year, month |-> current_month, solved |-> TRUE,
              soft |-> accepted.soft, M |-> used_M, status |-> last_status, x |-> x,
              schedule |-> schedule, carry_in |-> prev_overlap_mandatory,
              carry_out |-> carry, diagnostic |-> NoDiagnostic])
  /\ UNCHANGED <<inputs, side, neutral, solver_faults>>

\* the conflict scan listing every pair that is mandatory or unavailable
Conflicts_Either(data) ==
  {pd \in pediatricians \X (data.days_all \cup UNION {prev_overlap_mandatory[p] : p \in pediatricians}) :
     \/ pd[2] \in data.mandatory_all[pd[1]] \cup prev_overlap_mandatory[pd[1]]
     \/ pd[2] \in data.cannot_all[pd[1]]}

\* conflict list of the diagnostics: mandatory (own or carried) and unavailable
Conflicts(data) ==
  {pd \in pediatricians \X (data.days_all \cup UNION {prev_overlap_mandatory[p] : p \in pediatricians}) :
     /\ pd[2] \in data.mandatory_all[pd[1]] \cup prev_overlap_mandatory[pd[1]]
     /\ pd[2] \in data.cannot_all[pd[1]]}

\* a month no trial solved: diagnostics and carry reset (pediweb), message only
\* (generate_schedule)
Failed ==
  /\ pc = "finish"
  /\ used_M = None
  /\ LET data == combine_month_with_overlap(current_year, current_month, last_M)
         reset == [p \in pediatricians |-> {}]
         carry == IF variant = "pediweb" THEN reset ELSE prev_overlap_mandatory
     IN /\ prev_overlap_mandatory' = carry
        /\ outcome' = Append(outcome,
             [year |-> current_year, month |-> current_month, solved |-> FALSE,
              soft |-> soft_phase, M |-> last_M, status |-> last_status, x |-> NoX,
              schedule |-> NoX, carry_in |-> prev_overlap_mandatory,
              carry_out |-> carry,
              diagnostic |-> IF variant = "pediweb"
                             THEN [status |-> last_prob.status,
                                   conflicts_list |-> Conflicts(data),
                                   last_M_attempted |-> last_M]
                             ELSE NoDiagnostic])
  /\ Advance
  /\ UNCHANGED <<inputs, side, db, neutral, solver_faults, cumulative_actual_free2,
                 cumulative_target_free2>>

\* ------------------------------------------------------------------ inputs
\* The run covers NumMonths months of year 0 (and 1).  pediweb.py always ends in
\* December; generate_and_save takes any range.
RunStarts ==
  {[variant |-> "pediweb", month |-> MonthsPerYear - NumMonths + 1],
   [variant |-> "generate_schedule", month |-> MonthsPerYear - NumMonths + 1],
   [variant |-> "generate_schedule", month |-> MonthsPerYear - NumMonths + 2]}

\* the date dom of the month off months after (year 0, month)
RunDate(month, off, dom) ==
  DateOf((month - 1 + off) \div MonthsPerYear, ((month - 1 + off) % MonthsPerYear) + 1, dom)

\* rows of the workbook: a worker, the column value that files the row, a date
EntryRows(month) ==
     {[p |-> p, kind |-> "mandatory", d |-> RunDate(month, off, 1)] :
        p \in pediatricians, off \in {0, 1}}
  \cup {[p |-> 1, kind |-> k, d |-> RunDate(month, 1, 1)] :
        k \in {"skip", "vacation", "prefer_not", "prefer"}}
  \cup {[p |-> p, kind |-> "vacation", d |-> RunDate(month, 1, 2)] : p \in pediatricians}
  \cup {[p |-> 2, kind |-> k, d |-> RunDate(month, 0, 1)] : k \in {"congress", "prefer_not"}}

RECURSIVE SetsUpTo(_, _)
SetsUpTo(S, k) ==
  IF k = 0 THEN {{}}
  ELSE LET T == SetsUpTo(S, k - 1) IN T \cup {t \cup {e} : t \in T, e \in S}

\* the Number and Weekend cells of a sheet; 4 and 5 are used by Scenarios only
LimitProfiles ==
  <<[number |-> [min |-> 0, max |-> MonthLen], weekend |-> [min |-> 0, max |-> MonthLen]],
    [number |-> [min |-> 1, max |-> 2], weekend |-> [min |-> 0, max |-> 1]],
    [number |-> [min |-> 0, max |-> 1], weekend |-> [min |-> 0, max |-> 1]],
    [number |-> [min |-> 1, max |-> 3], weekend |-> [min |-> 0, max |-> MonthLen]],
    [number |-> [min |-> 2, max |-> 1], weekend |-> [min |-> 0, max |-> MonthLen]]>>

RoleProfiles ==
  <<[type |-> [p \in pediatricians |-> "Adjunt"], mir |-> [p \in pediatricians |-> "Yes"]],
    [type |-> [p \in pediatricians |-> IF p = 1 THEN "Resident" ELSE "Adjunt"],
     mir |-> [p \in pediatricians |-> IF p = 2 THEN "No" ELSE "Yes"]],
    [type |-> [p \in pediatricians |-> IF p = 1 THEN "Resident" ELSE "Adjunt"],
     mir |-> [p \in pediatricians |-> IF p = 1 THEN "No" ELSE "Yes"]]>>

\* S1 and S2; 3 is used by Scenarios only
Bands == <<[S1 |-> 1, S2 |-> 2], [S1 |-> 1, S2 |-> 1], [S1 |-> 2, S2 |-> 1]>>

\* M_START and M_MIN; 3 and 4 are used by Scenarios only
Separations ==
  <<[M_START |-> 2, M_MIN |-> 1], [M_START |-> 1, M_MIN |-> 0], [M_START |-> 1, M_MIN |-> 1],
    [M_START |-> 0, M_MIN |-> 0]>>

Dates(rows, p, kind) == {r.d : r \in {q \in rows : q.p = p /\ q.kind = kind}}

Workbook(rows, lim, role) ==
  [number |-> [p \in pediatricians |-> LimitProfiles[lim].number],
   weekend |-> [p \in pediatricians |-> LimitProfiles[lim].weekend],
   type |-> RoleProfiles[role].type,
   mir |-> RoleProfiles[role].mir,
   mandatory |-> [p \in pediatricians |-> Dates(rows, p, "mandatory")],
   vacation |-> [p \in pediatricians |-> Dates(rows, p, "vacation")],
   congress |-> [p \in pediatricians |-> Dates(rows, p, "congress")],
   skip |-> [p \in pediatricians |-> Dates(rows, p, "skip")],
   prefer_not |-> [p \in pediatricians |-> Dates(rows, p, "prefer_not")],
   prefer |-> [p \in pediatricians |-> Dates(rows, p, "prefer")]]

Cost(i) == IF i = 1 THEN 0 ELSE 1

\* the inputs within budget deviations of the baseline
Drawn(month, budget) ==
  {inp \in [rows : SetsUpTo(EntryRows(month), Max(0, budget)), lim : 1..3,
            role : DOMAIN RoleProfiles, band : 1..2, sep : 1..2, lex : BOOLEAN,
            prefer_not : {PENALTY_PREFER_NOT_DAY}] :
     Cardinality(inp.rows) + Cost(inp.lim) + Cost(inp.role) + Cost(inp.band)
       + Cost(inp.sep) + (IF inp.lex THEN 0 ELSE 1) <= budget}

\* Inputs of two workers outside the drawn family: a month in which a mandatory
\* shift, a skip day and the separation leave a day that nobody can take; a sheet
\* with min > max; a configuration with S1 > S2; a configuration of the weighted
\* sum in which a prefer-not day weighs as much as a shift of fairness deviation;
\* a Resident who cannot supervise and has a minimum of one shift.
Scenarios(month) ==
  {[rows |-> {[p |-> 1, kind |-> "mandatory", d |-> RunDate(month, 0, 1)],
              [p |-> 2, kind |-> "skip", d |-> RunDate(month, 0, 2)]},
    lim |-> 4, role |-> 1, band |-> 2, sep |-> 3, lex |-> TRUE,
    prefer_not |-> PENALTY_PREFER_NOT_DAY],
   [rows |-> {}, lim |-> 5, role |-> 1, band |-> 1, sep |-> 1, lex |-> TRUE,
    prefer_not |-> PENALTY_PREFER_NOT_DAY],
   [rows |-> {}, lim |-> 1, role |-> 1, band |-> 3, sep |-> 1, lex |-> TRUE,
    prefer_not |-> PENALTY_PREFER_NOT_DAY],
   [rows |-> {[p |-> 1, kind |-> "mandatory", d |-> RunDate(month, 0, 1)],
              [p |-> 1, kind |-> "mandatory", d |-> RunDate(month, 0, 4)],
              [p |-> 2, kind |-> "skip", d |-> RunDate(month, 0, 2)],
              [p |-> 2, kind |-> "skip", d |-> RunDate(month, 0, 4)],
              [p |-> 2, kind |-> "prefer_not", d |-> RunDate(month, 0, 1)]},
    lim |-> 1, role |-> 1, band |-> 1, sep |-> 4, lex |-> FALSE,
    prefer_not |-> PENALTY_MONTHLY_BALANCE],
   [rows |-> {}, lim |-> 2, role |-> 3, band |-> 1, sep |-> 2, lex |-> TRUE,
    prefer_not |-> PENALTY_PREFER_NOT_DAY]}

\* The rows of table shift before a run from (year 0, month): the last date
\* before the range, the first and the last date of the range, the first date
\* after it; of the first worker and of the last worker a workbook may hold.
StoredBefore(month) ==
  {<<1, RunDate(month, 0, 1) - 1>>, <<1, RunDate(month, 0, 1)>>,
   <<NumWorkers, RunDate(month, NumMonths - 1, MonthLen)>>,
   <<NumWorkers, RunDate(month, NumMonths, 1)>>}

\* the state before the month loop, for a solver and a database that may fail
\* faults times each
Start(faults, budget) ==
  \E start \in RunStarts, n \in 2..NumWorkers :
    /\ ped_sheets = n
    /\ \E inp \in Drawn(start.month, budget - (n - 2))
                    \cup (IF n = 2 THEN Scenarios(start.month) ELSE {}) :
         /\ variant = start.variant
         /\ inp.prefer_not # PENALTY_PREFER_NOT_DAY => variant = "generate_schedule"
         /\ CONF = [S1 |-> Bands[inp.band].S1, S2 |-> Bands[inp.band].S2,
                    M_START |-> Separations[inp.sep].M_START,
                    M_MIN |-> Separations[inp.sep].M_MIN,
                    USE_LEXICOGRAPHIC_FAIRNESS |-> inp.lex,
                    PENALTY_PREFER_NOT_DAY |-> inp.prefer_not]
         /\ xls = Workbook(inp.rows, inp.lim, inp.role)
         /\ current_year = 0
         /\ current_month = start.month
         /\ end_year = (start.month + NumMonths - 2) \div MonthsPerYear
         /\ end_month = ((start.month + NumMonths - 2) % MonthsPerYear) + 1
         /\ stored0 = StoredBefore(start.month)
         /\ shifts = IF start.variant = "generate_schedule"
                     THEN clean_range(StoredBefore(start.month), 0, start.month)
                     ELSE StoredBefore(start.month)
    /\ pc = "trial"
    /\ solver_faults = faults
    /\ commit_faults = faults
    /\ soft_phase = FALSE
    /\ m_idx = 1
    /\ used_M = None
    /\ last_x = NoX
    /\ last_M = None
    /\ last_status = "None"
    /\ last_mandatory_cur = [p \in pediatricians |-> 0]
    /\ last_desired_free2 = NoDesired
    /\ last_prob = NoProb
    /\ prev_overlap_mandatory = [p \in pediatricians |-> {}]
    /\ cumulative_actual_free2 = [p \in pediatricians |-> 0]
    /\ cumulative_target_free2 = [p \in pediatricians |-> 0]
    /\ trials = <<>>
    /\ accepted = NoAccept
    /\ outcome = <<>>
    /\ neutral = NoNeutral
    /\ SideIdle

\* a solver that reaches a verdict in every call
Init == Start(0, MaxDeviations)

\* a solver that may fail, on the inputs within one deviation of the baseline
InitFaults == Start(MaxSolverFaults, MaxDeviations - 1)

Next == Trial \/ Extract \/ Failed

Spec == Init /\ [][Next]_vars

SpecFaults == InitFaults /\ [][Next]_vars

\* the baseline inputs and the scenarios, under a scheduler that lets the loop
\* take its next step
InitLive == Start(0, 0)

SpecLive == InitLive /\ [][Next]_vars /\ WF_vars(Next)

\* --- one month solved twice, on zero totals and on other totals
\* the rolling totals a second solve of the month may start from, in halves
OtherTotals ==
  {t \in [target : [pediatricians -> {0, MaxTotal2}], actual : [pediatricians -> {0, MaxTotal2}]] :
     /\ \A p \in pediatricians : t.target[p] = 0 \/ t.actual[p] = 0
     /\ \E p \in pediatricians : t.target[p] # t.actual[p]}

\* The month loop entered again for the same month, inputs and carry, with other
\* rolling totals; what the first solve ended with is kept in neutral.
Replay ==
  /\ pc = "finish"
  /\ ~neutral.recorded
  /\ neutral' = IF accepted.ok
                THEN [recorded |-> TRUE, ok |-> TRUE, soft |-> accepted.soft, M |-> accepted.M,
                      base_val |-> accepted.base_val,
                      fair2 |-> fair_expr2(accepted.x,
                                 combine_month_with_overlap(current_year, current_month,
                                                            accepted.M),
                                 last_mandatory_cur, last_desired_free2)]
                ELSE [NoNeutral EXCEPT !.recorded = TRUE]
  /\ \E t \in OtherTotals :
       /\ cumulative_target_free2' = t.target
       /\ cumulative_actual_free2' = t.actual
  /\ pc' = "trial"
  /\ soft_phase' = FALSE
  /\ m_idx' = 1
  /\ used_M' = None
  /\ last_x' = NoX
  /\ last_M' = None
  /\ last_status' = "None"
  /\ last_mandatory_cur' = [p \in pediatricians |-> 0]
  /\ last_desired_free2' = NoDesired
  /\ last_prob' = NoProb
  /\ trials' = <<>>
  /\ accepted' = NoAccept
  /\ UNCHANGED <<inputs, side, db, current_year, current_month, prev_overlap_mandatory,
                 solver_faults, outcome>>

InitFairness == Start(0, MaxDeviations - 1)

NextFairness == Trial \/ Replay

SpecFairness == InitFairness /\ [][NextFairness]_vars

\* --- the repeated-weekday term on its own, over the months a calendar has
\* The scheduling variables of a run that is over: nothing left to solve.
SchedulerIdle ==
  /\ variant = "pediweb"
  /\ ped_sheets = 1
  /\ CONF = [S1 |-> Bands[1].S1, S2 |-> Bands[1].S2,
             M_START |-> Separations[1].M_START, M_MIN |-> Separations[1].M_MIN,
             USE_LEXICOGRAPHIC_FAIRNESS |-> TRUE,
             PENALTY_PREFER_NOT_DAY |-> PENALTY_PREFER_NOT_DAY]
  /\ xls = Workbook({}, 1, 1)
  /\ current_year = 0
  /\ current_month = MonthsPerYear
  /\ end_year = 0
  /\ end_month = MonthsPerYear
  /\ pc = "done"
  /\ solver_faults = 0
  /\ soft_phase = FALSE
  /\ m_idx = 1
  /\ used_M = None
  /\ last_x = NoX
  /\ last_M = None
  /\ last_status = "None"
  /\ last_mandatory_cur = [p \in pediatricians |-> 0]
  /\ last_desired_free2 = NoDesired
  /\ last_prob = NoProb
  /\ prev_overlap_mandatory = [p \in pediatricians |-> {}]
  /\ cumulative_actual_free2 = [p \in pediatricians |-> 0]
  /\ cumulative_target_free2 = [p \in pediatricians |-> 0]
  /\ trials = <<>>
  /\ accepted = NoAccept
  /\ outcome = <<>>
  /\ neutral = NoNeutral
  /\ stored0 = {}
  /\ shifts = {}
  /\ commit_faults = 0

scheduler == <<inputs, current_year, current_month, pc, solver_faults, soft_phase, m_idx,
               used_M, last_x, last_M, last_status, last_mandatory_cur, last_desired_free2,
               last_prob, prev_overlap_mandatory, cumulative_actual_free2,
               cumulative_target_free2, neutral, trials, accepted, outcome, db>>

\* A month has between four and five dates of one weekday; months of fewer days
\* are kept so that the case without a repetition is there too. The dates are a
\* week apart; the worker is assigned on any of them.
SameDowDays(first, n) == {first + DaysPerWeek * i : i \in 0..(n - 1)}

InitWeekday ==
  /\ SchedulerIdle
  /\ task = NoTask
  /\ swaps = NoSwaps
  /\ \E n \in 1..MaxSameDow : \E assigned \in SUBSET SameDowDays(1, n) :
       weekday_term = [days |-> SameDowDays(1, n), assigned |-> assigned,
                       value |-> 0, done |-> FALSE]

\* the term of one (p, dow) pair that is added to penalty_terms_base
RepeatedWeekday ==
  /\ ~weekday_term.done
  /\ weekday_term' = [weekday_term EXCEPT
        !.value = PENALTY_REPEATED_WEEKDAY
                    * RepeatedWeekdayOf(weekday_term.assigned, weekday_term.days),
        !.done = TRUE]
  /\ UNCHANGED <<scheduler, task, swaps>>

NextWeekday == RepeatedWeekday

SpecWeekday == InitWeekday /\ [][NextWeekday]_vars

\* --- the background job of the web route
\* def generate_and_save(start_year=2026, start_month=7, end_year=2026, end_month=12)
generate_and_save_params == <<"start_year", "start_month", "end_year", "end_month">>

\* The call of a function with positional arguments: more arguments than
\* parameters raise TypeError before the body is entered.
Call(args, params) ==
  IF Len(args) > Len(params)
  THEN [raised |-> TRUE, message |-> "TypeError"]
  ELSE [raised |-> FALSE, message |-> "none"]

\* how generate_and_save ends once entered: it runs to the end of the range, it
\* returns early after a save that raised, or it raises
Generations ==
  {[raised |-> FALSE, message |-> "none"], [raised |-> TRUE, message |-> "Exception"]}

\* The route queues the job for a range of one to MaxRange months and the id of
\* the current service.
InitTask ==
  /\ SchedulerIdle
  /\ weekday_term = NoTerm
  /\ swaps = NoSwaps
  /\ \E sy \in 0..1, sm \in 1..MonthsPerYear, n \in 1..MaxRange, service_id \in 1..MaxService :
       LET last == sy * MonthsPerYear + (sm - 1) + (n - 1)
       IN task = [args |-> <<sy, sm, last \div MonthsPerYear, (last % MonthsPerYear) + 1, service_id>>,
                  status |-> "queued", entered |-> FALSE, message |-> "none"]

\* generate_schedule_task: generate_and_save(start_year, start_month, end_year,
\* end_month, service_id) inside try/except
generate_schedule_task ==
  /\ task.status = "queued"
  /\ LET call == Call(task.args, generate_and_save_params)
     IN IF call.raised
        THEN task' = [task EXCEPT !.status = "failed", !.message = call.message]
        ELSE \E gen \in Generations :
               task' = [task EXCEPT !.entered = TRUE,
                                    !.status = IF gen.raised THEN "failed" ELSE "completed",
                                    !.message = gen.message]
  /\ UNCHANGED <<scheduler, weekday_term, swaps>>

NextTask == generate_schedule_task

SpecTask == InitTask /\ [][NextTask]_vars

\* --- the swap-request workflow of the web application
\* Users 1..NumSwapUsers are linked to the pediatrician of the same number; the
\* manager is linked to none.  Table shift holds rows of a pediatrician and a date.
SwapUsers == 1..NumSwapUsers

\* the rows of table shift a calendar may hold: two workers on one date, and
\* each of them on a date of their own
ShiftTables ==
  {<<[ped |-> 1, date |-> 1], [ped |-> 2, date |-> 2]>>,
   <<[ped |-> 1, date |-> 1], [ped |-> 2, date |-> 2], [ped |-> 2, date |-> 1]>>}

InitSwap ==
  /\ SchedulerIdle
  /\ weekday_term = NoTerm
  /\ task = NoTask
  /\ \E t \in ShiftTables : swaps = [shift |-> t, reqs |-> <<>>]

\* the request row after a handler set its status; seen and exchanged record
\* the statuses the row has had and how often its shifts were exchanged
SetStatus(req, status) ==
  [req EXCEPT !.status = status, !.seen = Append(req.seen, status)]

\* request_swap by user: the user owns the source shift; the target user is the
\* one linked to the pediatrician of the target shift
request_swap ==
  /\ Len(swaps.reqs) < MaxRequests
  /\ \E user \in SwapUsers, source \in DOMAIN swaps.shift, target \in DOMAIN swaps.shift :
       /\ swaps.shift[source].ped = user
       /\ swaps' = [swaps EXCEPT !.reqs = Append(swaps.reqs,
            [requester_id |-> user, requester_shift_id |-> source,
             target_user_id |-> swaps.shift[target].ped, target_shift_id |-> target,
             status |-> "pending_peer", seen |-> <<"pending_peer">>, exchanged |-> 0])]
  /\ UNCHANGED <<scheduler, weekday_term, task>>

\* respond_swap by user: the request exists and the user is its target
respond_swap ==
  /\ \E user \in SwapUsers, request_id \in DOMAIN swaps.reqs, action \in {"accept", "reject"} :
       LET req == swaps.reqs[request_id]
       IN /\ req.target_user_id = user
          /\ Len(req.seen) < MaxCalls
          /\ swaps' = [swaps EXCEPT !.reqs[request_id] =
               SetStatus(req, IF action = "reject" THEN "rejected" ELSE "pending_admin")]
  /\ UNCHANGED <<scheduler, weekday_term, task>>

\* The commit of an exchange raises where an update puts a pediatrician twice on
\* one date (unique constraint on pediatrician_id, date).
ExchangeRaises(shift, s1, s2) ==
  /\ shift[s1].ped # shift[s2].ped
  /\ \/ \E r \in DOMAIN shift \ {s1} :
          shift[r].ped = shift[s2].ped /\ shift[r].date = shift[s1].date
     \/ \E r \in DOMAIN shift \ {s2} :
          shift[r].ped = shift[s1].ped /\ shift[r].date = shift[s2].date

\* admin_confirm_swap by a manager: the request exists
admin_confirm_swap ==
  /\ \E request_id \in DOMAIN swaps.reqs, action \in {"approve", "reject"} :
       LET req == swaps.reqs[request_id]
           s1 == req.requester_shift_id
           s2 == req.target_shift_id
           p1 == swaps.shift[s1].ped
           p2 == swaps.shift[s2].ped
       IN /\ Len(req.seen) < MaxCalls
          /\ IF action = "reject"
             THEN swaps' = [swaps EXCEPT !.reqs[request_id] = SetStatus(req, "rejected_by_admin")]
             ELSE /\ ~ExchangeRaises(swaps.shift, s1, s2)
                  /\ swaps' = [shift |-> [swaps.shift EXCEPT ![s1].ped = p2, ![s2].ped = p1],
                                reqs |-> [swaps.reqs EXCEPT ![request_id] =
                                  [SetStatus(req, "approved") EXCEPT !.exchanged = req.exchanged + 1]]]
  /\ UNCHANGED <<scheduler, weekday_term, task>>

NextSwap == request_swap \/ respond_swap \/ admin_confirm_swap

SpecSwap == InitSwap /\ [][NextSwap]_vars

\* --- the desired_free block on its own, over all its inputs
\* One worker with limits mn and mx, mandatory shifts on the first k days of the
\* month, and rolling totals target2 and actual2 (halves; assigned shifts are whole).
InitDesired ==
  \E mn \in 0..MonthLen, mx \in 0..MonthLen, k \in 0..MonthLen,
     target2 \in 0..MaxTotal2, actual2 \in {a \in 0..MaxTotal2 : a % 2 = 0} :
    LET month == MonthsPerYear - NumMonths + 1
        rows == {[p |-> 1, kind |-> "mandatory", d |-> RunDate(month, 0, i)] : i \in 1..k}
    IN /\ variant = "pediweb"
       /\ ped_sheets = 1
       /\ CONF = [S1 |-> Bands[1].S1, S2 |-> Bands[1].S2,
                  M_START |-> Separations[1].M_START, M_MIN |-> Separations[1].M_MIN,
                  USE_LEXICOGRAPHIC_FAIRNESS |-> TRUE,
                  PENALTY_PREFER_NOT_DAY |-> PENALTY_PREFER_NOT_DAY]
       /\ xls = [Workbook(rows, 1, 1) EXCEPT
                   !.number = [p \in pediatricians |-> [min |-> mn, max |-> mx]]]
       /\ current_year = 0
       /\ current_month = month
       /\ end_year = 0
       /\ end_month = MonthsPerYear
       /\ pc = "trial"
       /\ solver_faults = 0
       /\ soft_phase = FALSE
       /\ m_idx = 1
       /\ used_M = None
       /\ last_x = NoX
       /\ last_M = None
       /\ last_status = "None"
       /\ last_mandatory_cur = [p \in pediatricians |-> 0]
       /\ last_desired_free2 = NoDesired
       /\ last_prob = NoProb
       /\ prev_overlap_mandatory = [p \in pediatricians |-> {}]
       /\ cumulative_actual_free2 = [p \in pediatricians |-> actual2]
       /\ cumulative_target_free2 = [p \in pediatricians |-> target2]
       /\ trials = <<>>
       /\ accepted = NoAccept
       /\ outcome = <<>>
       /\ neutral = NoNeutral
       /\ stored0 = {}
       /\ shifts = {}
       /\ commit_faults = 0
       /\ SideIdle

\* mandatory_cur and desired_free of the first trial of the month
DesiredFree ==
  /\ pc = "trial"
  /\ last_desired_free2 = NoDesired
  /\ LET data == combine_month_with_overlap(current_year, current_month,
                                            M_CANDIDATES[m_idx])
     IN /\ last_mandatory_cur' = mandatory_cur(data)
        /\ last_desired_free2' = desired_free2(data)
  /\ pc' = "done"
  /\ UNCHANGED <<inputs, side, db, neutral, current_year, current_month, solver_faults, soft_phase, m_idx,
                 used_M, last_x, last_M, last_status, last_prob, prev_overlap_mandatory,
                 cumulative_actual_free2, cumulative_target_free2, trials, accepted,
                 outcome>>

NextDesired == DesiredFree

SpecDesired == InitDesired /\ [][NextDesired]_vars


\* ------------------------------------------------------------ properties
\* the horizon of the trial that was accepted for the current month
AcceptedData == combine_month_with_overlap(current_year, current_month, accepted.M)

\* the number of workers assigned on day d in the accepted solution
AssignedOn(d) == Cardinality({p \in pediatricians : d \in accepted.x[p]})

\* C1: in every accepted month, every day of the horizon days_all (month days
\* and overlap window) has at least S1 and at most S2 workers assigned.
C1_StaffingBand ==
  accepted.ok =>
    \A d \in AcceptedData.days_all :
      CONF.S1 <= AssignedOn(d) /\ AssignedOn(d) <= CONF.S2

\* an accepted horizon with an overlap window, one day at S1 and one day at S2 > S1
C1_Witness ==
  /\ accepted.ok
  /\ CONF.S1 < CONF.S2
  /\ AcceptedData.overlap_days # {}
  /\ \E d \in AcceptedData.days_all : AssignedOn(d) = CONF.S1
  /\ \E d \in AcceptedData.days_all : AssignedOn(d) = CONF.S2

\* C2: in every accepted solution each worker is assigned on every date of the
\* merged mandatory set and on every carried-over overlap date of the current
\* month, and on no horizon date of the unavailable set.
C2_MandatoryAndUnavailable ==
  accepted.ok =>
    \A p \in pediatricians :
      /\ \A d \in AcceptedData.mandatory_all[p] : d \in accepted.x[p]
      /\ \A d \in prev_overlap_mandatory[p] :
           d \in AcceptedData.month_days => d \in accepted.x[p]
      /\ \A d \in AcceptedData.days_all :
           d \in AcceptedData.cannot_all[p] => d \notin accepted.x[p]

\* an accepted month with a mandatory date, a carried-over date and an
\* unavailable date in the horizon
C2_Witness ==
  /\ accepted.ok
  /\ \E p \in pediatricians : AcceptedData.mandatory_all[p] # {}
  /\ \E p \in pediatricians : prev_overlap_mandatory[p] \cap AcceptedData.month_days # {}
  /\ \E p \in pediatricians : AcceptedData.cannot_all[p] \cap AcceptedData.days_all # {}

\* C4: in a solution accepted with separation M no worker is assigned on two
\* horizon days d and d + k with 1 <= k <= M.
C4_Separation ==
  accepted.ok =>
    \A p \in pediatricians : \A d \in AcceptedData.days_all : \A k \in 1..accepted.M :
      (d + k) \in AcceptedData.days_all =>
         ~(d \in accepted.x[p] /\ (d + k) \in accepted.x[p])

\* a month accepted with M = 2 in which a worker has two shifts
C4_Witness ==
  /\ accepted.ok
  /\ accepted.M = 2
  /\ \E p \in pediatricians : Cardinality(accepted.x[p]) >= 2

\* C5: a solution accepted in the hard phase keeps every worker's number of
\* current-month shifts and of current-month weekend shifts within the limits.
C5_HardPhaseLimits ==
  (accepted.ok /\ ~accepted.soft) =>
    \A p \in pediatricians :
      LET tot == Cardinality(accepted.x[p] \cap AcceptedData.month_days)
          wk == Cardinality({d \in accepted.x[p] \cap AcceptedData.month_days :
                               weekday(d) \in {5, 6}})
      IN /\ xls.number[p].min <= tot /\ tot <= xls.number[p].max
         /\ xls.weekend[p].min <= wk /\ wk <= xls.weekend[p].max

\* a hard-phase month with limits below the month's length, one worker at the
\* shift maximum and one at the weekend maximum
C5_Witness ==
  /\ accepted.ok /\ ~accepted.soft
  /\ \E p \in pediatricians :
       /\ xls.number[p].max < MonthLen
       /\ Cardinality(accepted.x[p] \cap AcceptedData.month_days) = xls.number[p].max
  /\ \E p \in pediatricians :
       Cardinality({d \in accepted.x[p] \cap AcceptedData.month_days :
                      weekday(d) \in {5, 6}}) = xls.weekend[p].max


\* the merged mandatory set of worker p in a model: own-month and overlap-window
\* entries and the carried-over dates of the current month
MandatorySet(p, data) ==
  data.mandatory_all[p] \cup (prev_overlap_mandatory[p] \cap data.month_days)

\* the horizons the trials of the current month were built on
TrialData ==
  {combine_month_with_overlap(current_year, current_month, trials[i].M) :
     i \in DOMAIN trials}

\* C3 (as stated): after extraction and merging the mandatory set of every worker
\* is disjoint from the unavailable set, skip and leave dates alike.
C3_MandatoryDisjointFromUnavailable ==
    \A data \in TrialData : \A p \in pediatricians :
      MandatorySet(p, data) \cap data.cannot_all[p] = {}

\* C3 (amended): after extraction and merging no mandatory date of a worker is one
\* of the worker's skip dates, and no carried-over date of the current month is
\* unavailable; a mandatory date that is a leave date or the day before or after
\* one stays in both sets.
C3_MandatoryDisjointFromSkip ==
    \A data \in TrialData : \A p \in pediatricians :
      /\ data.mandatory_all[p] \cap xls.skip[p] = {}
      /\ (prev_overlap_mandatory[p] \cap data.month_days) \cap data.cannot_all[p] = {}
      /\ \A d \in xls.mandatory[p] \cap data.days_all :
           d \notin xls.skip[p] => d \in data.mandatory_all[p]

\* a model was built for a month in which a sheet has a mandatory date that is
\* also a skip date, after a month that carried an assignment over
C3_Witness ==
  /\ \E data \in TrialData : \E p \in pediatricians :
       xls.mandatory[p] \cap xls.skip[p] \cap data.month_days # {}
  /\ \E p \in pediatricians : prev_overlap_mandatory[p] # {}


\* the least value each slack variable of worker p can take at the accepted x
ExactViolation(p, k) ==
  LET tot == Cardinality(accepted.x[p] \cap AcceptedData.month_days)
      wk == Cardinality({d \in accepted.x[p] \cap AcceptedData.month_days :
                           weekday(d) \in {5, 6}})
      over(a, b) == IF a > b THEN a - b ELSE 0
  IN CASE k = "under_min" -> over(xls.number[p].min, tot)
       [] k = "over_max" -> over(tot, xls.number[p].max)
       [] k = "under_min_wknd" -> over(xls.weekend[p].min, wk)
       [] k = "over_max_wknd" -> over(wk, xls.weekend[p].max)

\* the weighted sum by which the accepted slack values exceed the exact violations
SlackSurplus ==
  SumOver(pediatricians, [p \in pediatricians |->
    SumOver(SlackKinds, [k \in SlackKinds |->
      (IF k \in {"under_min", "over_max"} THEN 500 ELSE 400) * accepted.slack[p][k].excess])])

\* C6 (as stated): in a solution accepted in the soft phase every slack variable
\* equals the exact violation of its limit, also after the lexicographic re-solve.
C6_SlackEqualsViolation ==
  (accepted.ok /\ accepted.soft) =>
    \A p \in pediatricians : \A k \in SlackKinds :
      /\ accepted.slack[p][k].least = ExactViolation(p, k)
      /\ accepted.slack[p][k].excess = 0

\* C6 (amended): in a solution accepted in the soft phase every slack variable is
\* at least the exact violation of its limit; it equals it when lexicographic
\* fairness is off, and after the lexicographic re-solve the slack values exceed
\* the exact violations by a weighted total of at most the tolerance 1e-6.
C6_SlackCoversViolation ==
  (accepted.ok /\ accepted.soft) =>
    /\ \A p \in pediatricians : \A k \in SlackKinds :
         /\ accepted.slack[p][k].least = ExactViolation(p, k)
         /\ accepted.slack[p][k].excess >= 0
         /\ ~CONF.USE_LEXICOGRAPHIC_FAIRNESS => accepted.slack[p][k].excess = 0
    /\ SlackSurplus <= 1000

\* a soft-phase month accepted after the re-solve with a limit violated and a slack
\* variable above the violation
C6_Witness ==
  /\ accepted.ok /\ accepted.soft
  /\ CONF.USE_LEXICOGRAPHIC_FAIRNESS
  /\ \E p \in pediatricians : \E k \in SlackKinds : ExactViolation(p, k) > 0
  /\ \E p \in pediatricians : \E k \in SlackKinds : accepted.slack[p][k].excess > 0


\* what the month before the current one ended with
LastOutcome == outcome[Len(outcome)]

\* C7: every assignment of the accepted solution of month m on a day of m's
\* overlap window is a PrevOverlapMandatory constraint of every model built for
\* month m + 1, and so is kept by the solution accepted for m + 1.
C7_OverlapCoupling ==
  (outcome # <<>> /\ LastOutcome.solved) =>
    \A p \in pediatricians : \A d \in LastOutcome.x[p] :
      d \notin DaysOfMonth(LastOutcome.year, LastOutcome.month) =>
        /\ \A i \in DOMAIN trials : d \in trials[i].carried[p]
        /\ accepted.ok => d \in accepted.x[p]

\* month m + 1 was accepted after more than one model, month m having assigned a
\* worker in its overlap window
C7_Witness ==
  /\ outcome # <<>> /\ LastOutcome.solved
  /\ \E p \in pediatricians :
       LastOutcome.x[p] \ DaysOfMonth(LastOutcome.year, LastOutcome.month) # {}
  /\ Len(trials) >= 2
  /\ accepted.ok

\* C8: the trials of a month are built in the order hard M_START .. M_MIN, then
\* soft M_START .. M_MIN; a soft model is built only after every hard model was
\* non-optimal; the first Optimal trial is the accepted one and the last one built.
C8_TrialOrder ==
  LET n == CONF.M_START - CONF.M_MIN + 1
  IN /\ Len(trials) <= 2 * n
     /\ \A i \in DOMAIN trials :
          /\ trials[i].soft = (i > n)
          /\ trials[i].M = CONF.M_START - ((i - 1) % n)
          /\ i < Len(trials) => trials[i].status # "Optimal"
     /\ accepted.ok <=> (trials # <<>> /\ trials[Len(trials)].status = "Optimal")
     /\ accepted.ok =>
          /\ accepted.soft = trials[Len(trials)].soft
          /\ accepted.M = trials[Len(trials)].M
     /\ (pc = "trial" /\ trials # <<>>) => trials[Len(trials)].status # "Optimal"
     /\ (pc = "finish" /\ ~accepted.ok) => Len(trials) = 2 * n

\* a month accepted in the soft phase at the last separation, after every other
\* trial
C8_Witness ==
  /\ accepted.ok /\ accepted.soft
  /\ accepted.M = CONF.M_MIN
  /\ Len(trials) = 2 * (CONF.M_START - CONF.M_MIN + 1)

\* C9: with lexicographic fairness the accepted solution has the least base
\* penalty of the feasible region (within the tolerance 1e-6) and, among the
\* feasible assignments of that base penalty, the least fairness deviation.
C9_LexicographicFairness ==
  (accepted.ok /\ CONF.USE_LEXICOGRAPHIC_FAIRNESS) =>
    LET data == AcceptedData
        desired2 == desired_free2(data)
        bx == base_expr(accepted.x, data, accepted.soft)
        fx == fair_expr2(accepted.x, data, last_mandatory_cur, desired2)
    IN /\ accepted.base_val = bx
       /\ SlackSurplus <= 1000
       /\ [base |-> bx, fair2 |-> fx] \in last_prob.values
       /\ \A v \in last_prob.values :
            /\ v.base >= bx
            /\ v.base = bx => v.fair2 >= fx

\* a month accepted with lexicographic fairness although a feasible assignment of
\* larger base penalty has a smaller fairness deviation
C9_Witness ==
  /\ accepted.ok /\ CONF.USE_LEXICOGRAPHIC_FAIRNESS
  /\ LET data == AcceptedData
         desired2 == desired_free2(data)
     IN \E v \in last_prob.values :
          /\ v.base > base_expr(accepted.x, data, accepted.soft)
          /\ v.fair2 < fair_expr2(accepted.x, data, last_mandatory_cur, desired2)

\* C10: after a month that no trial solved, the month has no assignment, the run
\* is at the following month, and no model built for that month has a carried-over
\* mandatory constraint.
C10_FailedMonth ==
  (outcome # <<>> /\ ~LastOutcome.solved) =>
    /\ \A p \in pediatricians : LastOutcome.schedule[p] = {}
    /\ current_year * 12 + current_month = LastOutcome.year * 12 + LastOutcome.month + 1
    /\ pc = "done" <=> (current_year > end_year
                          \/ (current_year = end_year /\ current_month > end_month))
    /\ \A i \in DOMAIN trials : \A p \in pediatricians : trials[i].carried[p] = {}

\* a model was built for the month after a failed month that had been handed a
\* non-empty carry
C10_Witness ==
  /\ outcome # <<>> /\ ~LastOutcome.solved
  /\ \E p \in pediatricians : LastOutcome.carry_in[p] # {}
  /\ trials # <<>>


\* C11: a month's assignment is extracted, counted and carried over only if the
\* solve that left the values read by the extractor ended Optimal, the fairness
\* re-solve included.
C11_ExtractedOnlyIfOptimal ==
  \A i \in DOMAIN outcome : outcome[i].solved => outcome[i].status = "Optimal"

\* C12: a solver call that ends without a verdict (a status other than Optimal or
\* Infeasible) aborts the run; it is not a trial that falls back to the next M or
\* phase.
C12_NoVerdictAborts ==
  (\E i \in DOMAIN trials : trials[i].status \notin {"Optimal", "Infeasible"}) =>
     pc = "aborted"


\* a sheet with min > max, S1 > S2 or M_MIN > M_START
Malformed ==
  \/ \E p \in pediatricians :
       xls.number[p].min > xls.number[p].max \/ xls.weekend[p].min > xls.weekend[p].max
  \/ CONF.S1 > CONF.S2
  \/ CONF.M_MIN > CONF.M_START

\* C13: with a malformed configuration no model is built and no solve is attempted.
C13_MalformedRejected ==
  Malformed => (trials = <<>> /\ last_prob = NoProb /\ outcome = <<>>)


\* the (worker, date) pairs of a failed month with the date mandatory (merged or
\* carried over) and unavailable, on the horizon of the smallest candidate M
DirectContradictions(r) ==
  LET data == combine_month_with_overlap(r.year, r.month, CONF.M_MIN)
  IN {pd \in pediatricians \X (data.days_all \cup DaysOfMonth(r.year, r.month)) :
        /\ pd[2] \in data.mandatory_all[pd[1]] \cup r.carry_in[pd[1]]
        /\ pd[2] \in data.cannot_all[pd[1]]}

\* C14: every month that no trial solved has a diagnostic record with the solver
\* status, the smallest candidate as last M attempted and, as conflict list,
\* exactly the pairs that are mandatory and unavailable.
C14_DiagnosticRecord ==
  \A i \in DOMAIN outcome :
    ~outcome[i].solved =>
      /\ outcome[i].diagnostic # NoDiagnostic
      /\ outcome[i].diagnostic.status = "Infeasible"
      /\ outcome[i].diagnostic.last_M_attempted = CONF.M_MIN
      /\ outcome[i].diagnostic.conflicts_list = DirectContradictions(outcome[i])

\* the end-to-end scenario: two workers, S1 = S2 = 1, M_CANDIDATES = <<1>>, limits
\* 1..3 for both, worker 1 mandatory on day 1 and worker 2 unavailable on day 2 of
\* the first month of the run
InScenario ==
  LET month == IF outcome = <<>> THEN current_month ELSE outcome[1].month
      data == process_month(0, month)
  IN /\ ped_sheets = 2
     /\ CONF.S1 = 1 /\ CONF.S2 = 1 /\ CONF.M_START = 1 /\ CONF.M_MIN = 1
     /\ \A p \in pediatricians :
          xls.number[p].min = 1 /\ xls.number[p].max = 3
     /\ DateOf(0, month, 1) \in data.mandatory_shifts[1]
     /\ DateOf(0, month, 2) \in data.cannot_do_days[2]

\* C15: in the end-to-end scenario every hard and soft trial of the month is
\* Infeasible, the month ends unsolved after the hard and the soft trial, and the
\* conflict list reported for it is empty.
C15_ScenarioInfeasible ==
  InScenario =>
    /\ outcome = <<>> =>
         /\ \A i \in DOMAIN trials : trials[i].status = "Infeasible"
         /\ pc = "finish" => /\ Len(trials) = 2
                             /\ ~trials[1].soft /\ trials[2].soft
                             /\ used_M = None
    /\ outcome # <<>> =>
         /\ ~outcome[1].solved
         /\ outcome[1].status = "Infeasible"
         /\ outcome[1].diagnostic # NoDiagnostic =>
              outcome[1].diagnostic.conflicts_list = {}

\* the scenario month has been reported as failed with its diagnostic record
C15_Witness ==
  /\ InScenario
  /\ outcome # <<>>
  /\ ~outcome[1].solved
  /\ outcome[1].diagnostic # NoDiagnostic
  /\ outcome[1].diagnostic.conflicts_list = {}

\* the (base penalty, fairness deviation) pairs at which a solver that reaches a
\* verdict may end the last trial: the optima of its model
OptimalValues ==
  LET V == last_prob.values
  IN IF CONF.USE_LEXICOGRAPHIC_FAIRNESS
     THEN {v \in V : /\ \A w \in V : v.base <= w.base
                     /\ \A w \in V : w.base = v.base => v.fair2 <= w.fair2}
     ELSE {v \in V : \A w \in V : 2 * v.base + v.fair2 <= 2 * w.base + w.fair2}

\* the values of base_expr and (twice) fair_expr at the accepted solution
AcceptedValues ==
  [base |-> base_expr(accepted.x, AcceptedData, accepted.soft),
   fair2 |-> fair_expr2(accepted.x, AcceptedData, last_mandatory_cur,
                        desired_free2(AcceptedData))]

\* the verdict of the last trial is fixed by its model
VerdictOfModel ==
  last_prob # NoProb =>
    (last_prob.status = "Optimal" <=> last_prob.values # {})

C17_DatesOfMonthAndWindow ==
  \A i \in DOMAIN outcome :
    outcome[i].solved =>
      LET r == outcome[i]
          first == (r.year * 12 + (r.month - 1)) * MonthLen + 1
      IN \A p \in pediatricians :
           /\ r.schedule[p] \subseteq first..(first + MonthLen - 1)
           /\ r.carry_out[p] \subseteq (first + MonthLen)..(first + MonthLen + r.M - 1)
           /\ r.carry_out[p] \cap (first..(first + MonthLen - 1)) = {}

\* a solved month with an assignment and a carry, whose accepted solution also
\* assigns the carrying worker inside the month
C17_Witness ==
  \E i \in DOMAIN outcome :
    /\ outcome[i].solved
    /\ outcome[i].M >= 1
    /\ \E p \in pediatricians :
         /\ outcome[i].carry_out[p] # {}
         /\ outcome[i].schedule[p] # {}
         /\ outcome[i].x[p] = outcome[i].schedule[p] \cup outcome[i].carry_out[p]

AcceptedMandatoryCount(p) ==
  Cardinality({d \in AcceptedData.month_days :
                 d \in AcceptedData.mandatory_all[p] \cup prev_overlap_mandatory[p]})

\* C19: the rolling totals change only in the step that ends a solved month, which
\* records the month once; that step adds (assigned month days - mandatory count)
\* to the actual total and max(0, midpoint - mandatory count) to the target total
\* (both counted in halves), for the accepted trial's count and limits; the step
\* that ends a failed month, and every other step, leaves both unchanged; no total
\* ever decreases.
C19_RollingTotals ==
  [][LET ended == Len(outcome') = Len(outcome) + 1
         r == outcome'[Len(outcome')]
     IN /\ (ended /\ r.solved) =>
             /\ accepted.ok
             /\ r.year = current_year /\ r.month = current_month
             /\ \A i \in DOMAIN outcome :
                  <<outcome[i].year, outcome[i].month>> # <<r.year, r.month>>
             /\ \A p \in pediatricians :
                  /\ cumulative_actual_free2'[p] = cumulative_actual_free2[p]
                       + 2 * (Cardinality(r.schedule[p]) - AcceptedMandatoryCount(p))
                  /\ LET mid2 == AcceptedData.shift_limits_cur[p].min
                                   + AcceptedData.shift_limits_cur[p].max
                         gain2 == mid2 - 2 * AcceptedMandatoryCount(p)
                     IN cumulative_target_free2'[p] = cumulative_target_free2[p]
                          + (IF gain2 > 0 THEN gain2 ELSE 0)
        /\ ~(ended /\ r.solved) =>
             /\ cumulative_actual_free2' = cumulative_actual_free2
             /\ cumulative_target_free2' = cumulative_target_free2
        /\ \A p \in pediatricians :
             /\ cumulative_actual_free2'[p] >= cumulative_actual_free2[p]
             /\ cumulative_target_free2'[p] >= cumulative_target_free2[p]
    ]_vars

\* after a solved first month: a worker whose mandatory shift of that month exceeded
\* the midpoint of the limits, so that the target total kept its value 0, and a
\* worker whose totals grew
C19_Witness ==
  /\ outcome # <<>> /\ outcome[1].solved
  /\ \E p \in pediatricians :
       /\ xls.mandatory[p] \cap outcome[1].schedule[p] # {}
       /\ cumulative_target_free2[p] = 0
  /\ \E q \in pediatricians :
       cumulative_target_free2[q] > 0 /\ cumulative_actual_free2[q] > 0

\* max(lo, min(hi, v))
Clamp(v, lo, hi) == IF hi < v THEN (IF lo > hi THEN lo ELSE hi) ELSE (IF lo > v THEN lo ELSE v)

\* the limits, the mandatory count and the rolling imbalance of worker p, in halves
DesiredLow2(p) ==
  IF xls.number[p].min > last_mandatory_cur[p]
  THEN 2 * (xls.number[p].min - last_mandatory_cur[p]) ELSE 0
DesiredHigh2(p) ==
  IF xls.number[p].max > last_mandatory_cur[p]
  THEN 2 * (xls.number[p].max - last_mandatory_cur[p]) ELSE 0
MidpointLessMandatory2(p) ==
  xls.number[p].min + xls.number[p].max - 2 * last_mandatory_cur[p]
Imbalance2(p) == cumulative_target_free2[p] - cumulative_actual_free2[p]

\* C20 as stated: desired_free is midpoint - mandatory count + alpha x (target -
\* actual), clamped into [max(0, min - mandatory), max(0, max - mandatory)], for all
\* limits, counts and totals.
C20_DesiredFreeAsStated ==
  last_desired_free2 # NoDesired =>
    \A p \in pediatricians :
      last_desired_free2[p] =
        Clamp(MidpointLessMandatory2(p) + 1 * Imbalance2(p), DesiredLow2(p), DesiredHigh2(p))

\* C20, amended: desired_free is max(0, midpoint - mandatory count) + alpha x
\* (target - actual), clamped into [max(0, min - mandatory), max(0, max - mandatory)]
\* (the lower bound where min > max), for all limits, counts and totals.
C20_DesiredFreeFloored ==
  last_desired_free2 # NoDesired =>
    \A p \in pediatricians :
      last_desired_free2[p] =
        Clamp((IF MidpointLessMandatory2(p) > 0 THEN MidpointLessMandatory2(p) ELSE 0)
                + 1 * Imbalance2(p),
              DesiredLow2(p), DesiredHigh2(p))

\* desired_free computed for a worker with more mandatory shifts than the midpoint
\* of the limits, behind on the rolling totals, with room left under the maximum
C20_Witness ==
  /\ last_desired_free2 # NoDesired
  /\ \E p \in pediatricians :
       /\ MidpointLessMandatory2(p) < 0
       /\ Imbalance2(p) > 0
       /\ DesiredHigh2(p) > 0
       /\ last_desired_free2[p] > 0

\* C21: for the month of the last trial built and every overlap length M, a date
\* outside the overlap window is in a merged set (mandatory, unavailable, disliked,
\* liked) exactly if it is in the current month's set, and every entry the merge
\* adds is an entry of the next month dated inside the overlap window.
C21_MergeFrame ==
  trials # <<>> =>
    \A M \in 0..MonthLen :
      LET cur == process_month(current_year, current_month)
          nxt == process_month(current_year, current_month + 1)
          data == combine_month_with_overlap(current_year, current_month, M)
          same(all, c, n) ==
            \A p \in pediatricians :
              /\ all[p] \ data.overlap_days = c[p] \ data.overlap_days
              /\ c[p] \subseteq all[p]
              /\ all[p] \ c[p] \subseteq n[p] \cap data.overlap_days
      IN /\ same(data.mandatory_all, cur.mandatory_shifts, nxt.mandatory_shifts)
         /\ same(data.cannot_all, cur.cannot_do_days, nxt.cannot_do_days)
         /\ same(data.prefer_not_all, cur.prefer_not_days, nxt.prefer_not_days)
         /\ same(data.preferred_all, cur.preferred_days, nxt.preferred_days)
         /\ data.month_days = cur.days

\* a trial built on a horizon whose merge added a mandatory date of the next month
C21_Witness ==
  /\ trials # <<>>
  /\ last_M # None /\ last_M >= 1
  /\ LET cur == process_month(current_year, current_month)
         data == combine_month_with_overlap(current_year, current_month, last_M)
     IN \E p \in pediatricians :
          \E d \in data.mandatory_all[p] : d \in data.overlap_days /\ d \notin cur.mandatory_shifts[p]

\* C22: the horizon of every trial built is the days of the current month and, if
\* M > 0 and the month is not the last month of the run, exactly the first M days
\* of the following month (January of the next year after a December); it has no
\* overlap days exactly when M = 0 or the month is the last one.
C22_HorizonOfTrial ==
  \A i \in DOMAIN trials :
    LET M == trials[i].M
        data == combine_month_with_overlap(current_year, current_month, M)
        last == current_year = end_year /\ current_month = end_month
        first == (current_year * 12 + (current_month - 1)) * MonthLen + 1
        month_days == first..(first + MonthLen - 1)
        window == (first + MonthLen)..(first + MonthLen + M - 1)
    IN /\ data.month_days = month_days
       /\ data.overlap_days = IF M > 0 /\ ~last THEN window ELSE {}
       /\ data.days_all = data.month_days \cup data.overlap_days

\* C23: a month solved on zero rolling totals and solved again on other totals,
\* inputs and carry the same, ends both times with the same accepted (phase, M) or
\* fails both times, and with lexicographic fairness with the same base penalty.
C23_FairnessIsSoft ==
  (neutral.recorded /\ pc = "finish") =>
    /\ accepted.ok = neutral.ok
    /\ accepted.ok =>
         /\ accepted.soft = neutral.soft
         /\ accepted.M = neutral.M
         /\ CONF.USE_LEXICOGRAPHIC_FAIRNESS => accepted.base_val = neutral.base_val

\* a month accepted on both solves with different fairness deviations
C23_Witness ==
  /\ neutral.recorded /\ pc = "finish"
  /\ accepted.ok /\ neutral.ok
  /\ CONF.USE_LEXICOGRAPHIC_FAIRNESS
  /\ \A v \in last_prob.values : v.fair2 # neutral.fair2

\* the months processed so far are consecutive calendar months in increasing
\* order, each once, the loop stands at the month after the last one, and a run
\* that has ended has processed the end month
MonthsInOrder ==
  /\ \A i \in DOMAIN outcome :
       /\ outcome[i].month \in 1..12
       /\ i > 1 => outcome[i].year * 12 + outcome[i].month
                     = outcome[i - 1].year * 12 + outcome[i - 1].month + 1
  /\ current_month \in 1..12
  /\ outcome # <<>> =>
       current_year * 12 + current_month
         = outcome[Len(outcome)].year * 12 + outcome[Len(outcome)].month + 1
  /\ pc = "done" =>
       /\ outcome # <<>>
       /\ outcome[Len(outcome)].year = end_year
       /\ outcome[Len(outcome)].month = end_month

\* within the month every (phase, M) is tried at most once, at most twice the
\* number of candidates in all, and at most one trial went on to the re-solve
TrialsOnce ==
  /\ \A i \in DOMAIN trials : \A j \in DOMAIN trials :
       (i # j) => <<trials[i].soft, trials[i].M>> # <<trials[j].soft, trials[j].M>>
  /\ Len(trials) <= 2 * (CONF.M_START - CONF.M_MIN + 1)
  /\ Cardinality({i \in DOMAIN trials : trials[i].status = "Optimal"}) <= 1

\* C24: the run ends; months are processed in increasing calendar order, each once,
\* through the end month; within a month each (phase, M) is tried at most once.
C24_Terminates ==
  /\ [](MonthsInOrder /\ TrialsOnce)
  /\ <>(pc \in {"done", "aborted"})

\* a run over the turn of the year that has ended, one of its months failed
C24_Witness ==
  /\ pc = "done"
  /\ Len(outcome) = NumMonths
  /\ outcome[Len(outcome)].year = 1
  /\ \E i \in DOMAIN outcome : ~outcome[i].solved
\* ---------------------------------------------------------------------------
\* C25: the repeated-weekday penalty of a (worker, weekday) pair depends only on
\* the number of dates of that weekday the worker is assigned: it is what the
\* same number of assignments on the first dates costs, it is zero for no or one
\* assignment, and it is never negative.
OnFirstDates(k, days) == {d \in days : Cardinality({e \in days : e < d}) < k}

C25_CountOnly ==
  weekday_term.done =>
    LET k == Cardinality(weekday_term.assigned)
    IN /\ weekday_term.value >= 0
       /\ k <= 1 => weekday_term.value = 0
       /\ weekday_term.value = PENALTY_REPEATED_WEEKDAY
             * RepeatedWeekdayOf(OnFirstDates(k, weekday_term.days), weekday_term.days)
\* ---------------------------------------------------------------------------
\* C26: when two consecutive months were both solved, the first with separation
\* M, no worker has a date in the first month's assignment and a date in the
\* second month's assignment that are at most M days apart.
C26_CrossMonthSeparation ==
  \A i \in DOMAIN outcome :
    (i + 1 \in DOMAIN outcome /\ outcome[i].solved /\ outcome[i + 1].solved) =>
      \A p \in pediatricians :
        \A d \in outcome[i].schedule[p], e \in outcome[i + 1].schedule[p] :
          e - d > outcome[i].M
\* ---------------------------------------------------------------------------
\* C27: a worker who is a Resident and cannot supervise is assigned on no day of
\* the horizon of an accepted solution; and a hard-phase trial of a month in which
\* such a worker has a mandatory date in the horizon or a minimum of at least one
\* shift does not end Optimal.
UnsupervisedResidents(data) ==
  {p \in pediatricians : data.tipus_status[p] = "Resident" /\ ~data.mir_status[p]}

C27_UnsupervisedResidentIdle ==
  /\ accepted.ok => \A p \in UnsupervisedResidents(AcceptedData) : accepted.x[p] = {}
  /\ pc \in {"trial", "finish"} =>
       \A i \in DOMAIN trials :
         LET t == trials[i]
             data == combine_month_with_overlap(current_year, current_month, t.M)
         IN (/\ ~t.soft
             /\ \E p \in UnsupervisedResidents(data) :
                  \/ (data.mandatory_all[p] \cup t.carried[p]) \cap data.days_all # {}
                  \/ data.shift_limits_cur[p].min >= 1)
            => t.status # "Optimal"

\* a month accepted in the soft phase, after hard-phase trials, in which a Resident
\* who cannot supervise has a minimum of one shift and works no day while the
\* others do
C27_Witness ==
  /\ accepted.ok /\ accepted.soft
  /\ \E i \in DOMAIN trials : ~trials[i].soft /\ trials[i].status = "Infeasible"
  /\ \E p \in UnsupervisedResidents(AcceptedData) :
       /\ AcceptedData.shift_limits_cur[p].min >= 1
       /\ accepted.x[p] = {}
       /\ \E q \in pediatricians : accepted.x[q] # {}
\* ---------------------------------------------------------------------------
\* the range of the run: first date of its first month, last date of its last
RunFirstDate ==
  IF outcome = <<>> THEN (current_year * 12 + (current_month - 1)) * MonthLen + 1
  ELSE (outcome[1].year * 12 + (outcome[1].month - 1)) * MonthLen + 1

RunLastDate == (end_year * 12 + end_month) * MonthLen

InRunRange(s) == s[2] >= RunFirstDate /\ s[2] <= RunLastDate

\* the rows of the assignments of the months recorded as solved
RowsOfOutcome ==
  {s \in (1..NumWorkers) \X (RunFirstDate..RunLastDate) :
     \E i \in DOMAIN outcome :
       outcome[i].solved /\ s[1] \in DOMAIN outcome[i].schedule /\ s[2] \in outcome[i].schedule[s[1]]}

\* the rows of the accepted assignment of a month whose save raised
RowsOfUnsaved ==
  IF pc = "aborted" /\ accepted.ok
  THEN {s \in (1..NumWorkers) \X (RunFirstDate..RunLastDate) :
          /\ s[1] \in pediatricians
          /\ s[2] \in accepted.x[s[1]]
          /\ (s[2] - 1) \div MonthLen = current_year * 12 + (current_month - 1)}
  ELSE {}

\* C28 as stated: after a run of generate_and_save, completed or stopped early,
\* the stored shifts outside the range of the run are those stored before, and
\* the stored shifts inside the range are the accepted assignments of all months
\* solved in the run.
C28_StoredAreSolved ==
  (variant = "generate_schedule" /\ pc \in {"done", "aborted"}) =>
    /\ {s \in shifts : ~InRunRange(s)} = {s \in stored0 : ~InRunRange(s)}
    /\ {s \in shifts : InRunRange(s)} = RowsOfOutcome \cup RowsOfUnsaved

\* C28, amended: once the range is cleaned, at every point of a run of
\* generate_and_save the stored shifts outside the range are those stored
\* before, and the stored shifts inside the range are the accepted assignments
\* of the months whose save committed; a month that failed, whose save raised or
\* that was not reached has none.
C28_StoredAreSaved ==
  variant = "generate_schedule" =>
    /\ {s \in shifts : ~InRunRange(s)} = {s \in stored0 : ~InRunRange(s)}
    /\ {s \in shifts : InRunRange(s)} = RowsOfOutcome

\* a run stopped by a save that raised, after a month that was saved, with rows
\* stored before the run on both sides of the range
C28_Witness ==
  /\ variant = "generate_schedule" /\ pc = "aborted" /\ accepted.ok
  /\ RowsOfUnsaved # {}
  /\ RowsOfOutcome # {} /\ RowsOfOutcome \subseteq shifts
  /\ \E s \in shifts : s[2] < RunFirstDate
  /\ \E s \in shifts : s[2] > RunLastDate
  /\ \E s \in stored0 : s \notin shifts
\* ---------------------------------------------------------------------------
\* C29: when the background task has returned, generate_and_save was run for the
\* range, and the status is completed when generation returned and failed, with
\* the message of the error, when generation raised.
C29_TaskRunsGeneration ==
  task.status \notin {"none", "queued"} =>
    /\ task.entered
    /\ task.status \in {"completed", "failed"}
    /\ task.status = "failed" <=> task.message = "Exception"
\* ---------------------------------------------------------------------------
\* C30: the two shifts of a swap request are exchanged at most once, and only for
\* a request that went pending_peer, pending_admin, approved; a request leaves
\* pending_peer only by the answer of its target and pending_admin only by the
\* decision of a manager, and no call changes a request in another status.
SwapPaths ==
  {<<"pending_peer">>, <<"pending_peer", "rejected">>, <<"pending_peer", "pending_admin">>,
   <<"pending_peer", "pending_admin", "rejected_by_admin">>,
   <<"pending_peer", "pending_admin", "approved">>}

C30_SwapWorkflow ==
  \A i \in DOMAIN swaps.reqs :
    LET req == swaps.reqs[i]
    IN /\ req.exchanged <= 1
       /\ req.exchanged = 1 => req.seen = <<"pending_peer", "pending_admin", "approved">>
       /\ req.seen \in SwapPaths

====
